---- MODULE Spec2Model ----
(* Model of the profile store of website-front-end: the UserAPI class of   *)
(* src/api.js (cache, subscriber set, fetch / update / subscribe /         *)
(* clearCache, the simulated periodic update and the avatar URL), and of   *)
(* what src/dashboard.js builds on it.                                     *)
(*                                                                         *)
(* JavaScript runs every synchronous section to completion, so each action *)
(* below is one synchronous section: a call up to its first await, the     *)
(* continuation that runs when a response arrives, or a timer callback.    *)
EXTENDS Integers, Sequences, FiniteSets, TLC

(***************************************************************************)
(* Bounds of the model                                                     *)
(***************************************************************************)
MaxClock == 2        \* the wall clock runs over 0..MaxClock milliseconds
MaxInFlight == 2     \* requests awaiting their response, and calls of the
                     \*   component awaiting the store, at the same time
MaxDisposers == 2    \* unsubscribe functions handed out by subscribe()
MaxNameLen == 4      \* characters of a name handed to generateAvatarURL
MaxWait == 2         \* debounce(func, wait) is called with wait in 1..MaxWait
MaxTime == 5         \* the time of the debounced function runs over 0..MaxTime
MaxCalls == 3        \* calls of a debounced function

(***************************************************************************)
(* Inputs                                                                  *)
(***************************************************************************)
Users == {1, 2}                  \* user identifiers; 1 is the demo user
NoUser == 0                      \* clearCache() without argument: userId = null
Names == {"Ann", "Bob"}          \* text the server may return as a name
Callbacks == {"cbA", "cbB"}      \* callback functions, compared by identity
Kinds == {"fetch", "update"}     \* requests that can be in flight
\* what the network can answer: a 2xx response with a JSON body, a non-2xx
\* response, a rejected fetch(), a 2xx response whose body is not JSON
Outcomes == {"ok", "http_error", "network_error", "bad_json"}

\* JSON bodies of GET /users/{id} (api.js:32): id and name; the other text
\* fields (email, username, phone, website) are copied exactly like name
GetBodies == [id : Users, name : Names]

\* JSON bodies of PUT /users/{id} (api.js:101): any subset of the fields
PutBodies ==
    { [f \in {} |-> 0] }
      \cup { [name |-> n] : n \in Names }
      \cup { [id |-> i] : i \in Users }
      \cup { [id |-> i, name |-> n] : i \in Users, n \in Names }

EmptyObject == [f \in {} |-> 0]  \* the object literal {}

\* profileData handed to updateUserProfile: partial data, sent as the body
\* of the PUT (api.js:94)
ProfileDatas == {EmptyObject} \cup { [name |-> n] : n \in Names }

\* an answer of the network: a failed one carries no body the code reads
Failures == [outcome : Outcomes \ {"ok"}, body : {EmptyObject}]
GetResponses == [outcome : {"ok"}, body : GetBodies] \cup Failures
PutResponses == [outcome : {"ok"}, body : PutBodies] \cup Failures

VARIABLES
    cache,          \* this.cache: Map from cache key to profile record
    subscribers,    \* this.subscribers: Set of callbacks, in insertion order
    pending,        \* requests in flight: [kind, userId] -> how many
    disposers,      \* the unsubscribe closures returned so far
    now,            \* the wall clock, in milliseconds
    last,           \* what the most recent synchronous section did
    sent,           \* profileData of the latest updateUserProfile call
    completed,      \* per user: a fetch or an update has completed
                    \*   successfully and the key was not invalidated since
    component,      \* the UserProfileComponent of dashboard.js: its fields,
                    \*   what its container shows, and its calls under way
    avatar,         \* a call of generateAvatarURL: its argument and what it
                    \*   returned
    debounced,      \* a function returned by DashboardUtils.debounce: its
                    \*   closure, the timers it has set, the time, and the
                    \*   calls made so far
    since           \* per user, what the callers did with the key so far:
                    \*   "invalidated": clearCache was applied to it and
                    \*      fetchUserProfile was not called for it since;
                    \*   "fetched": otherwise, when a fetchUserProfile call
                    \*      for it has returned a record since clearCache was
                    \*      last applied to it;
                    \*   "none": neither

vars == <<cache, subscribers, pending, disposers, now, last,
          sent, completed, since, avatar, component, debounced>>

\* the state that the cache and subscriber operations of UserAPI never touch
outsideVars == <<avatar, component, debounced>>

(***************************************************************************)
(* Pure helpers                                                            *)
(***************************************************************************)
\* `user_${userId}`  (api.js:20, 104, 157)
CacheKey(userId) == <<"user_", userId>>

\* Map.prototype.has / get / set / delete / clear
CacheHas(c, key) == key \in DOMAIN c
CacheSetIfAbsent(c, key, value) == c @@ (key :> value)
CacheSet(c, key, value) == (key :> value) @@ c
CacheDeleteAll(c, key) == [k \in {} |-> c[k]]
CacheDeleteOtherPrefix(c, key) ==
    [k \in DOMAIN c \ {<<"user", key[2]>>} |-> c[k]]
CacheDelete(c, key) == [k \in DOMAIN c \ {key} |-> c[k]]
CacheClear == [k \in {} |-> EmptyObject]

\* object spread { ...a, ...b }: the fields of b win
Spread(a, b) == b @@ a

\* Set.prototype.add keeps the place of an element that is already there
SetAdd(s, cb) ==
    IF \E i \in 1..Len(s) : s[i] = cb THEN s ELSE Append(s, cb)

\* Set.prototype.delete
SetDelete(s, cb) == SelectSeq(s, LAMBDA x : x # cb)

SeqRange(s) == { s[i] : i \in 1..Len(s) }


(***************************************************************************)
(* The pieces of UserAPI, as the code computes them                        *)
(***************************************************************************)
DemoUser == 1        \* the key 'user_1' of simulateRealTimeUpdates

NoError == ""
FetchErrorMessage == "Failed to fetch user profile. Please try again later."
UpdateErrorMessage == "Failed to update user profile. Please try again later."

\* The error thrown inside the try block of fetchUserProfile for a given
\* answer of the network: fetch() rejects, response.ok is false, or
\* response.json() rejects; NoError when the body is there.
TryGet(outcome) ==
    CASE outcome = "network_error" -> "TypeError: Failed to fetch"
      [] outcome = "http_error"    -> "HTTP error! status: 404"
      [] outcome = "bad_json"      -> "SyntaxError: Unexpected token"
      [] OTHER                     -> NoError

\* The same for the try block of updateUserProfile
TryPutUnchecked(outcome) ==
    CASE outcome = "network_error" -> "TypeError: Failed to fetch"
      [] outcome = "bad_json"      -> "SyntaxError: Unexpected token"
      [] OTHER                     -> NoError
TryPut(outcome) ==
    CASE outcome = "network_error" -> "TypeError: Failed to fetch"
      [] outcome = "http_error"    -> "HTTP error! status: 404"
      [] outcome = "bad_json"      -> "SyntaxError: Unexpected token"
      [] OTHER                     -> NoError

\* catch (error) { console.error(...); throw new Error('Failed to fetch ...') }
CatchFetchRethrow(error) == error
CatchFetch(error) == FetchErrorMessage

\* catch (error) { console.error(...); throw new Error('Failed to update ...') }
CatchUpdate(error) == UpdateErrorMessage

\* the cache lookup that opens fetchUserProfile: this.cache.has(cacheKey)
IsCachedNever(c, userId) == FALSE
IsCached(c, userId) == CacheHas(c, CacheKey(userId))

\* const profileData = { id: userData.id, name: userData.name, ...,
\*                       lastUpdated: new Date().toISOString() }
ProfileData(userData, t) ==
    [id |-> userData.id, name |-> userData.name, lastUpdated |-> t]

\* const cachedData = this.cache.get(cacheKey) || {}
CachedAlwaysEmpty(c, key) == EmptyObject
CachedOrEmpty(c, key) == IF CacheHas(c, key) THEN c[key] ELSE EmptyObject

\* const mergedData = { ...cachedData, ...updatedData, lastUpdated: now }
MergedDataCacheWins(cachedData, updatedData, t) ==
    Spread(Spread(updatedData, cachedData), [lastUpdated |-> t])
MergedData(cachedData, updatedData, t) ==
    Spread(Spread(cachedData, updatedData), [lastUpdated |-> t])

\* const updatedProfile = { ...currentProfile, lastSeen: now, lastUpdated: now }
UpdatedProfileNoLastSeen(currentProfile, t) ==
    Spread(currentProfile, [lastUpdated |-> t])
UpdatedProfile(currentProfile, t) ==
    Spread(currentProfile, [lastSeen |-> t, lastUpdated |-> t])

\* try { callback(profileData) } catch (error) { console.error(...) }
\* "threw" when the exception leaves the loop body, "done" otherwise
InvokeCallbackNoCatch(cb, throwers) ==
    IF cb \in throwers THEN "threw" ELSE "done"
InvokeCallback(cb, throwers) ==
    IF cb \in throwers THEN "caught" ELSE "done"

\* this.subscribers.forEach(callback => ...), from the i-th subscriber on:
\* the callbacks invoked, in order, each with the record it was given, and
\* whether an exception left forEach
RECURSIVE NotifyFrom(_, _, _, _)
NotifyFrom(subs, profileData, throwers, i) ==
    IF i > Len(subs)
    THEN [delivered |-> <<>>, thrown |-> FALSE]
    ELSE LET call == [cb |-> subs[i], data |-> profileData]
         IN  IF InvokeCallback(subs[i], throwers) = "threw"
             THEN [delivered |-> <<call>>, thrown |-> TRUE]
             ELSE LET rest == NotifyFrom(subs, profileData, throwers, i + 1)
                  IN  [delivered |-> <<call>> \o rest.delivered,
                       thrown |-> rest.thrown]

NotifySubscribersSkipFirst(subs, profileData, throwers) ==
    NotifyFrom(subs, profileData, throwers, 2)
NotifySubscribers(subs, profileData, throwers) ==
    NotifyFrom(subs, profileData, throwers, 1)

\* simulateRealTimeUpdates: const currentProfile = this.cache.get(cacheKey);
\* if (currentProfile) { ... }
HasCurrentProfileAlways(c, cacheKey) == TRUE
HasCurrentProfile(c, cacheKey) == CacheHas(c, cacheKey)

\* the cache while updateUserProfile broadcasts: this.cache.set(cacheKey,
\* mergedData) has run before this.notifySubscribers(mergedData)
CacheNotYetWritten(c, cacheKey, mergedData) == c
CacheAtBroadcast(c, cacheKey, mergedData) == CacheSet(c, cacheKey, mergedData)

\* the disposer returned by subscribe: () => this.subscribers.delete(callback)
DisposerEffect(subs, d) == SetDelete(subs, d.cb)

\* what a callback does with the store while a broadcast invokes it, before
\* it returns: nothing, subscribe(cb) (dropping the disposer it gets), a call
\* of the i-th disposer handed out, or clearCache()
CallbackActs ==
    { [op |-> "return", cb |-> "", i |-> 0],
      [op |-> "clearCache", cb |-> "", i |-> 0] }
      \cup { [op |-> "subscribe", cb |-> cb, i |-> 0] : cb \in Callbacks }
      \cup { [op |-> "dispose", cb |-> "", i |-> i] : i \in 1..MaxDisposers }

\* this.subscribers.forEach(callback => ...) from the i-th entry on, with
\* callbacks that act on the store.  Set.prototype.forEach walks the live
\* entry list: an entry appended during the walk is visited, an entry deleted
\* before its turn is not, and a deletion does not move the cursor past an
\* entry.  Yields the Set, the disposers and the cache after the walk and
\* the calls made.
RECURSIVE ForEachLive(_, _, _, _, _, _)
ForEachLive(subs, disps, c, profileData, acts, i) ==
    IF i > Len(subs)
    THEN [subscribers |-> subs, disposers |-> disps, cache |-> c,
          delivered |-> <<>>]
    ELSE LET act == acts[subs[i]]
             subs2 == CASE act.op = "subscribe" -> SetAdd(subs, act.cb)
                        [] act.op = "dispose" ->
                              DisposerEffect(subs, disps[act.i])
                        [] OTHER -> subs
             disps2 == IF act.op = "dispose"
                       THEN [disps EXCEPT ![act.i].called = TRUE]
                       ELSE disps
             c2 == IF act.op = "clearCache" THEN CacheClear ELSE c
             next == IF \E j \in 1..i : subs[j] \notin SeqRange(subs2)
                     THEN i ELSE i + 1
             rest == ForEachLive(subs2, disps2, c2, profileData, acts, next)
         IN  [rest EXCEPT
                !.delivered = << [cb |-> subs[i], data |-> profileData] >>
                                \o rest.delivered]

(***************************************************************************)
(* generateAvatarURL: strings are sequences of characters                  *)
(***************************************************************************)
\* the characters of a name: an upper-case letter, a lower-case one, a space
NameChars == {"J", "d", " "}

RECURSIVE StringsOfLength(_)
StringsOfLength(n) ==
    IF n = 0 THEN { <<>> }
    ELSE { Append(s, ch) : s \in StringsOfLength(n - 1), ch \in NameChars }

\* the names handed to generateAvatarURL
NameStrings == UNION { StringsOfLength(n) : n \in 0..MaxNameLen }

\* String.prototype.split(' '): the pieces between the spaces, empty ones kept
RECURSIVE Split(_)
Split(str) ==
    IF \A i \in 1..Len(str) : str[i] # " "
    THEN << str >>
    ELSE LET i == CHOOSE j \in 1..Len(str) :
                     /\ str[j] = " "
                     /\ \A k \in 1..(j - 1) : str[k] # " "
         IN  << SubSeq(str, 1, i - 1) >> \o Split(SubSeq(str, i + 1, Len(str)))

\* word.charAt(0): the first character, the empty string for an empty word
CharAt0(word) == IF word = <<>> THEN <<>> ELSE << word[1] >>

\* String.prototype.toUpperCase, on NameChars
UpperCaseOf(ch) == IF ch = "d" THEN "D" ELSE ch
ToUpperCase(str) == [i \in 1..Len(str) |-> UpperCaseOf(str[i])]

\* Array.prototype.join('')
RECURSIVE Join(_)
Join(words) ==
    IF words = <<>> THEN <<>> ELSE Head(words) \o Join(Tail(words))

\* String.prototype.substring(0, 2)
Substring02(str) == SubSeq(str, 1, IF Len(str) < 2 THEN Len(str) ELSE 2)

\* const initials = name.split(' ').map(word =>
\*     word.charAt(0).toUpperCase()).join('').substring(0, 2)
Initials(name) ==
    LET words == Split(name)
        firsts == [i \in 1..Len(words) |-> ToUpperCase(CharAt0(words[i]))]
    IN  Substring02(Join(firsts))

\* encodeURIComponent: letters stand for themselves, a space becomes %20
RECURSIVE EncodeURIComponent(_)
EncodeURIComponent(str) ==
    IF str = <<>> THEN <<>>
    ELSE (IF Head(str) = " " THEN << "%", "2", "0" >> ELSE << Head(str) >>)
           \o EncodeURIComponent(Tail(str))

\* the template literal around ${...}, each fixed part as one piece of text
AvatarURLHead == << "https://ui-avatars.com/api/?name=" >>
AvatarURLTail == << "&size=80&background=667eea&color=ffffff&bold=true" >>

\* generateAvatarURL(name): initials is computed and not used; the URL
\* carries encodeURIComponent(name)
GenerateAvatarURL(name) ==
    LET initials == Initials(name)
    IN  AvatarURLHead \o EncodeURIComponent(name) \o AvatarURLTail

(***************************************************************************)
(* State                                                                   *)
(***************************************************************************)
PendingKeys == Kinds \X Users
InFlight == pending[<<"fetch", 1>>] + pending[<<"fetch", 2>>]
              + pending[<<"update", 1>>] + pending[<<"update", 2>>]

\* the value of `last` after a section that returns nothing to look at;
\* seen is the entry the callbacks of a broadcast find in the cache, body the
\* JSON updateUserProfile received
NoEvent ==
    [kind |-> "none", userId |-> NoUser, outcome |-> "", networked |-> FALSE,
     result |-> EmptyObject, error |-> NoError, delivered |-> <<>>,
     threw |-> {}, since |-> "none", secondCall |-> FALSE,
     removed |-> FALSE, seen |-> EmptyObject, body |-> EmptyObject,
     forceRefresh |-> FALSE]

\* new UserAPI(): an empty cache, nobody subscribed, nothing in flight
InitAPI ==
    /\ cache = CacheClear
    /\ subscribers = <<>>
    /\ pending = [p \in PendingKeys |-> 0]
    /\ disposers = <<>>
    /\ now = 0
    /\ last = NoEvent
    /\ sent = EmptyObject
    /\ completed = [u \in Users |-> FALSE]
    /\ since = [u \in Users |-> "none"]

\* no call of generateAvatarURL under way
NoURL == <<>>
NoAvatarCall == [name |-> <<>>, url |-> NoURL]

\* this.currentUser = null
NullUser == EmptyObject

\* container.innerHTML: '' , the markup of renderProfile (of which the model
\* keeps the name shown), or the markup of renderError (the message shown)
EmptyHTML == [view |-> "empty", text |-> ""]

\* before new UserProfileComponent(...): no component.  settled holds the
\* values of awaits that are ready while their continuation has not run;
\* awaiting counts the loadUserProfile and updateProfile calls that have
\* started and not finished; destroyed records that destroy() has run
NoComponent ==
    [constructed |-> FALSE, destroyed |-> FALSE, currentUser |-> NullUser,
     isLoading |-> FALSE, unsubscribe |-> 0, innerHTML |-> EmptyHTML,
     settled |-> <<>>, awaiting |-> 0]

\* debounce(func, wait) returns executedFunction with `let timeout`
\* undefined (0) in its closure.  timers is the timer table of the page: the
\* timers set and neither run nor cleared; time is the time in the units of
\* wait.  calls and invoked record the calls of executedFunction and of func
\* (after: how many calls of executedFunction had been made)
Debounce(wait) ==
    [wait |-> wait, timeout |-> 0, timers |-> {}, nextId |-> 1, time |-> 0,
     calls |-> <<>>, invoked |-> <<>>]

\* before DashboardUtils.debounce is called
NoDebounce == Debounce(0)

Init ==
    /\ InitAPI
    /\ avatar = NoAvatarCall
    /\ component = NoComponent
    /\ debounced = NoDebounce

(***************************************************************************)
(* Operations                                                              *)
(***************************************************************************)
\* fetchUserProfile(userId), up to the await of fetch(): a cache hit returns
\* the cached record, a miss sends GET /users/{userId}.  The method declares
\* one parameter: a second argument, forceRefresh, is accepted and never read
FetchUserProfile(userId, forceRefresh) ==
    /\ IF IsCached(cache, userId)
       THEN /\ last' = [NoEvent EXCEPT
                          !.kind = "fetchReturn", !.userId = userId,
                          !.outcome = "hit",
                          !.forceRefresh = forceRefresh,
                          !.result = cache[CacheKey(userId)],
                          !.since = since[userId]]
            /\ since' = [since EXCEPT ![userId] = "fetched"]
            /\ UNCHANGED pending
       ELSE /\ InFlight < MaxInFlight
            /\ pending' = [pending EXCEPT ![<<"fetch", userId>>] = @ + 1]
            /\ last' = [NoEvent EXCEPT
                          !.kind = "fetchSent", !.userId = userId,
                          !.forceRefresh = forceRefresh,
                          !.networked = TRUE,
                          !.since = since[userId]]
            /\ since' = [since EXCEPT
                           ![userId] = IF @ = "invalidated" THEN "none" ELSE @]
    /\ UNCHANGED <<cache, subscribers, disposers, now, sent, completed>>
    /\ UNCHANGED outsideVars

\* fetchUserProfile(userId), from the answer of the network on
FetchResponse(userId, response) ==
    /\ pending[<<"fetch", userId>>] > 0
    /\ pending' = [pending EXCEPT ![<<"fetch", userId>>] = @ - 1]
    /\ LET error == TryGet(response.outcome)
           profileData == ProfileData(response.body, now)
       IN  IF error = NoError
           THEN /\ cache' = CacheSet(cache, CacheKey(userId), profileData)
                /\ last' = [NoEvent EXCEPT
                              !.kind = "fetchReturn", !.userId = userId,
                              !.outcome = response.outcome,
                              !.networked = TRUE,
                              !.result = profileData]
                /\ completed' = [completed EXCEPT ![userId] = TRUE]
                /\ since' = [since EXCEPT
                               ![userId] = IF @ = "invalidated"
                                           THEN @ ELSE "fetched"]
           ELSE /\ last' = [NoEvent EXCEPT
                              !.kind = "fetchReturn", !.userId = userId,
                              !.outcome = response.outcome,
                              !.networked = TRUE,
                              !.error = CatchFetch(error)]
                /\ UNCHANGED <<cache, completed, since>>
    /\ UNCHANGED <<subscribers, disposers, now, sent>>
    /\ UNCHANGED outsideVars

\* updateUserProfile(userId, profileData), up to the await of fetch():
\* sends PUT /users/{userId}
UpdateUserProfile(userId, profileData) ==
    /\ InFlight < MaxInFlight
    /\ pending' = [pending EXCEPT ![<<"update", userId>>] = @ + 1]
    /\ sent' = profileData
    /\ last' = NoEvent
    /\ UNCHANGED <<cache, subscribers, disposers, now,
                   completed, since>>
    /\ UNCHANGED outsideVars

\* updateUserProfile(userId, profileData), from the answer of the network on;
\* throwers are the callbacks that throw when this broadcast invokes them
UpdateResponse(userId, response, throwers) ==
    /\ pending[<<"update", userId>>] > 0
    /\ pending' = [pending EXCEPT ![<<"update", userId>>] = @ - 1]
    /\ LET error == TryPut(response.outcome)
           cacheKey == CacheKey(userId)
           mergedData == MergedData(CachedOrEmpty(cache, cacheKey),
                                    response.body, now)
           notified == NotifySubscribers(subscribers, mergedData, throwers)
           atBroadcast == CacheAtBroadcast(cache, cacheKey, mergedData)
       IN  IF error = NoError
           THEN /\ cache' = CacheSet(cache, cacheKey, mergedData)
                /\ last' = [NoEvent EXCEPT
                              !.kind = "updateReturn", !.userId = userId,
                              !.outcome = response.outcome,
                              !.networked = TRUE,
                              !.delivered = notified.delivered,
                              !.threw = throwers,
                              !.seen = CachedOrEmpty(atBroadcast, cacheKey),
                              !.body = response.body,
                              !.result = IF notified.thrown
                                         THEN EmptyObject ELSE mergedData,
                              !.error = IF notified.thrown
                                        THEN CatchUpdate("callback")
                                        ELSE NoError]
                /\ completed' = [completed EXCEPT ![userId] = TRUE]
           ELSE /\ last' = [NoEvent EXCEPT
                              !.kind = "updateReturn", !.userId = userId,
                              !.outcome = response.outcome,
                              !.networked = TRUE,
                              !.error = CatchUpdate(error)]
                /\ UNCHANGED <<cache, completed>>
    /\ UNCHANGED <<subscribers, disposers, now, sent, since>>
    /\ UNCHANGED outsideVars

\* subscribe(callback): adds the callback to the Set, returns a disposer
Subscribe(callback) ==
    /\ Len(disposers) < MaxDisposers
    /\ subscribers' = SetAdd(subscribers, callback)
    /\ disposers' = Append(disposers, [cb |-> callback, called |-> FALSE])
    /\ last' = NoEvent
    /\ UNCHANGED <<cache, pending, now, sent, completed, since>>
    /\ UNCHANGED outsideVars

\* a call of the i-th disposer handed out
Unsubscribe(i) ==
    /\ i \in 1..Len(disposers)
    /\ subscribers' = DisposerEffect(subscribers, disposers[i])
    /\ disposers' = [disposers EXCEPT ![i].called = TRUE]
    /\ last' = [NoEvent EXCEPT
                  !.kind = "unsubscribe",
                  !.secondCall = disposers[i].called,
                  !.removed = (subscribers' # subscribers)]
    /\ UNCHANGED <<cache, pending, now, sent, completed, since>>
    /\ UNCHANGED outsideVars

\* clearCache(userId): one key when userId is truthy, every key otherwise
ClearCache(userId) ==
    /\ IF userId # NoUser
       THEN /\ cache' = CacheDelete(cache, CacheKey(userId))
            /\ completed' = [completed EXCEPT ![userId] = FALSE]
            /\ since' = [since EXCEPT ![userId] = "invalidated"]
       ELSE /\ cache' = CacheClear
            /\ completed' = [u \in Users |-> FALSE]
            /\ since' = [u \in Users |-> "invalidated"]
    /\ last' = [NoEvent EXCEPT
                  !.kind = "clearCache", !.userId = userId,
                  !.removed = (cache' # cache)]
    /\ UNCHANGED <<subscribers, pending, disposers, now, sent>>
    /\ UNCHANGED outsideVars

\* one run of the setInterval callback of simulateRealTimeUpdates
SimulatedUpdate(throwers) ==
    /\ LET cacheKey == CacheKey(DemoUser)
       IN  IF HasCurrentProfile(cache, cacheKey)
           THEN LET currentProfile == CachedOrEmpty(cache, cacheKey)
                    updatedProfile == UpdatedProfile(currentProfile, now)
                    notified == NotifySubscribers(subscribers, updatedProfile,
                                                  throwers)
                IN  /\ cache' = CacheSet(cache, cacheKey, updatedProfile)
                    /\ last' = [NoEvent EXCEPT
                                  !.kind = "tick", !.userId = DemoUser,
                                  !.outcome = "ok",
                                  !.result = updatedProfile,
                                  !.delivered = notified.delivered,
                                  !.threw = throwers]
           ELSE /\ throwers = {}
                /\ last' = [NoEvent EXCEPT !.kind = "tick"]
                /\ UNCHANGED cache
    /\ UNCHANGED <<subscribers, pending, disposers, now, sent,
                   completed, since>>
    /\ UNCHANGED outsideVars

\* one run of the setInterval callback with subscribers that act on the
\* store while notifySubscribers invokes them
SimulatedUpdateLive(acts) ==
    /\ \A cb \in Callbacks :
          acts[cb].op = "dispose" => acts[cb].i \in 1..Len(disposers)
    /\ LET cacheKey == CacheKey(DemoUser)
       IN  IF HasCurrentProfile(cache, cacheKey)
           THEN LET currentProfile == CachedOrEmpty(cache, cacheKey)
                    updatedProfile == UpdatedProfile(currentProfile, now)
                    walk == ForEachLive(subscribers, disposers,
                               CacheSet(cache, cacheKey, updatedProfile),
                               updatedProfile, acts, 1)
                    cleared == \E cb \in SeqRange(walk.delivered) :
                                  acts[cb.cb].op = "clearCache"
                IN  /\ cache' = walk.cache
                    /\ subscribers' = walk.subscribers
                    /\ disposers' = walk.disposers
                    /\ completed' = IF cleared THEN [u \in Users |-> FALSE]
                                    ELSE completed
                    /\ since' = IF cleared
                                THEN [u \in Users |-> "invalidated"]
                                ELSE since
                    /\ last' = [NoEvent EXCEPT
                                  !.kind = "tick", !.userId = DemoUser,
                                  !.outcome = "ok",
                                  !.result = updatedProfile,
                                  !.delivered = walk.delivered]
           ELSE /\ last' = [NoEvent EXCEPT !.kind = "tick"]
                /\ UNCHANGED <<cache, subscribers, disposers,
                               completed, since>>
    /\ UNCHANGED <<pending, now, sent>>
    /\ UNCHANGED outsideVars

(***************************************************************************)
(* UserProfileComponent (dashboard.js), on the one UserAPI.  Each action   *)
(* is one synchronous section of the component with the sections of the    *)
(* store it runs.  The CSS classes of the container are left out.          *)
(***************************************************************************)
\* the arrow function init() hands to subscribe
ComponentCallback == "handleProfileUpdate"

IsNull(record) == DOMAIN record = {}

\* record.id, undefined (NoUser) when the record has none
IdOf(record) == IF "id" \in DOMAIN record THEN record.id ELSE NoUser

\* renderProfile / renderError: what the container shows afterwards
RenderProfile(profileData) ==
    [view |-> "profile",
     text |-> IF "name" \in DOMAIN profileData
              THEN profileData.name ELSE "undefined"]
RenderError(errorMessage) == [view |-> "error", text |-> errorMessage]

\* handleProfileUpdate(profileData)
HandleProfileUpdate(comp, profileData) ==
    IF ~IsNull(comp.currentUser) /\ IdOf(profileData) = IdOf(comp.currentUser)
    THEN [comp EXCEPT !.currentUser = profileData,
                      !.innerHTML = RenderProfile(profileData)]
    ELSE comp

\* notifySubscribers(profileData) as far as the component is concerned
Deliver(comp, subs, profileData) ==
    IF ComponentCallback \in SeqRange(subs)
    THEN HandleProfileUpdate(comp, profileData)
    ELSE comp

\* the bookkeeping of `since` for a fetchUserProfile call
SinceAfterFetchCall(s, userId, hit) ==
    [s EXCEPT ![userId] = IF hit THEN "fetched"
                          ELSE IF @ = "invalidated" THEN "none" ELSE @]

\* loadUserProfile(userId) up to its await, on the cache c the section has
\* made and the component comp: setLoadingState(true), fetchUserProfile up to
\* its own await (a hit has its record ready, a miss sends the GET)
LoadUserProfileFrom(c, comp, userId) ==
    LET hit == IsCached(c, userId)
    IN  /\ InFlight + Len(comp.settled) < MaxInFlight
        /\ pending' = IF hit THEN pending
                      ELSE [pending EXCEPT ![<<"fetch", userId>>] = @ + 1]
        /\ component' = [comp EXCEPT
                           !.isLoading = TRUE,
                           !.awaiting = @ + 1,
                           !.settled = IF hit
                                       THEN Append(@, c[CacheKey(userId)])
                                       ELSE @]

\* new UserProfileComponent(containerId, api): init() subscribes and calls
\* loadUserProfile()
NewUserProfileComponent ==
    /\ ~component.constructed
    /\ Len(disposers) < MaxDisposers
    /\ subscribers' = SetAdd(subscribers, ComponentCallback)
    /\ disposers' = Append(disposers,
                           [cb |-> ComponentCallback, called |-> FALSE])
    /\ LoadUserProfileFrom(cache,
           [component EXCEPT !.constructed = TRUE,
                             !.unsubscribe = Len(disposers) + 1],
           DemoUser)
    /\ since' = SinceAfterFetchCall(since, DemoUser, IsCached(cache, DemoUser))
    /\ last' = NoEvent
    /\ UNCHANGED <<cache, now, sent, completed, avatar, debounced>>

\* loadUserProfile(userId), called on the component, up to its await
LoadUserProfile(userId) ==
    /\ component.constructed /\ ~component.destroyed
    /\ LoadUserProfileFrom(cache, component, userId)
    /\ since' = SinceAfterFetchCall(since, userId, IsCached(cache, userId))
    /\ last' = NoEvent
    /\ UNCHANGED <<cache, subscribers, disposers, now, sent, completed,
                   avatar, debounced>>

\* refresh() up to its await: clearCache(currentUser.id), then
\* loadUserProfile(currentUser.id), where an undefined id clears every key
\* and loads the default user
Refresh ==
    /\ component.constructed /\ ~component.destroyed
    /\ ~IsNull(component.currentUser)
    /\ LET id == IdOf(component.currentUser)
           userId == IF id = NoUser THEN DemoUser ELSE id
           cleared == IF id # NoUser
                      THEN CacheDelete(cache, CacheKey(id)) ELSE CacheClear
           invalidated == IF id # NoUser
                          THEN [since EXCEPT ![id] = "invalidated"]
                          ELSE [u \in Users |-> "invalidated"]
       IN  /\ cache' = cleared
           /\ completed' = IF id # NoUser
                           THEN [completed EXCEPT ![id] = FALSE]
                           ELSE [u \in Users |-> FALSE]
           /\ since' = SinceAfterFetchCall(invalidated, userId,
                                           IsCached(cleared, userId))
           /\ LoadUserProfileFrom(cleared, component, userId)
    /\ last' = NoEvent
    /\ UNCHANGED <<subscribers, disposers, now, sent, avatar, debounced>>

\* updateProfile(newData) up to its await: nothing without a currentUser,
\* else setLoadingState(true) and updateUserProfile(currentUser.id, newData)
\* up to its await
UpdateProfile(newData) ==
    /\ component.constructed /\ ~component.destroyed
    /\ ~IsNull(component.currentUser)
    /\ IdOf(component.currentUser) \in Users
    /\ InFlight + Len(component.settled) < MaxInFlight
    /\ pending' = [pending EXCEPT
                     ![<<"update", IdOf(component.currentUser)>>] = @ + 1]
    /\ sent' = newData
    /\ component' = [component EXCEPT !.isLoading = TRUE, !.awaiting = @ + 1]
    /\ last' = NoEvent
    /\ UNCHANGED <<cache, subscribers, disposers, now, completed, since,
                   avatar, debounced>>

\* loadUserProfile after the await of a fetchUserProfile that was a cache
\* hit: currentUser, renderProfile, and setLoadingState(false) in finally
LoadResumes ==
    /\ component.settled # <<>>
    /\ LET profileData == Head(component.settled)
       IN  component' = [component EXCEPT
                           !.settled = Tail(@),
                           !.currentUser = profileData,
                           !.innerHTML = RenderProfile(profileData),
                           !.isLoading = FALSE,
                           !.awaiting = @ - 1]
    /\ last' = NoEvent
    /\ UNCHANGED <<cache, subscribers, pending, disposers, now, sent,
                   completed, since, avatar, debounced>>

\* the answer to the GET of a loadUserProfile: fetchUserProfile from its
\* await on, then loadUserProfile from its await on (currentUser and
\* renderProfile, or renderError in catch; setLoadingState(false) in
\* finally).  An answer is a task of its own: it waits for the ready awaits
LoadResponse(userId, response) ==
    /\ component.settled = <<>>
    /\ pending[<<"fetch", userId>>] > 0
    /\ pending' = [pending EXCEPT ![<<"fetch", userId>>] = @ - 1]
    /\ LET error == TryGet(response.outcome)
           profileData == ProfileData(response.body, now)
       IN  IF error = NoError
           THEN /\ cache' = CacheSet(cache, CacheKey(userId), profileData)
                /\ completed' = [completed EXCEPT ![userId] = TRUE]
                /\ since' = [since EXCEPT
                               ![userId] = IF @ = "invalidated"
                                           THEN @ ELSE "fetched"]
                /\ component' = [component EXCEPT
                                   !.currentUser = profileData,
                                   !.innerHTML = RenderProfile(profileData),
                                   !.isLoading = FALSE,
                                   !.awaiting = @ - 1]
           ELSE /\ component' = [component EXCEPT
                                   !.innerHTML =
                                       RenderError(CatchFetch(error)),
                                   !.isLoading = FALSE,
                                   !.awaiting = @ - 1]
                /\ UNCHANGED <<cache, completed, since>>
    /\ last' = NoEvent
    /\ UNCHANGED <<subscribers, disposers, now, sent, avatar, debounced>>

\* the answer to the PUT of an updateProfile: updateUserProfile from its
\* await on (merge, cache.set, notifySubscribers, which runs
\* handleProfileUpdate while the component is subscribed), then updateProfile
\* from its await on (currentUser and renderProfile, or the rethrow in
\* catch; setLoadingState(false) in finally)
UpdateProfileResponse(userId, response) ==
    /\ component.settled = <<>>
    /\ pending[<<"update", userId>>] > 0
    /\ pending' = [pending EXCEPT ![<<"update", userId>>] = @ - 1]
    /\ LET error == TryPut(response.outcome)
           cacheKey == CacheKey(userId)
           mergedData == MergedData(CachedOrEmpty(cache, cacheKey),
                                    response.body, now)
           notified == Deliver(component, subscribers, mergedData)
       IN  IF error = NoError
           THEN /\ cache' = CacheSet(cache, cacheKey, mergedData)
                /\ completed' = [completed EXCEPT ![userId] = TRUE]
                /\ component' = [notified EXCEPT
                                   !.currentUser = mergedData,
                                   !.innerHTML = RenderProfile(mergedData),
                                   !.isLoading = FALSE,
                                   !.awaiting = @ - 1]
           ELSE /\ component' = [component EXCEPT
                                   !.isLoading = FALSE,
                                   !.awaiting = @ - 1]
                /\ UNCHANGED <<cache, completed>>
    /\ last' = NoEvent
    /\ UNCHANGED <<subscribers, disposers, now, sent, since, avatar, debounced>>

\* one run of the setInterval callback of simulateRealTimeUpdates, whose
\* broadcast runs handleProfileUpdate while the component is subscribed
SimulatedUpdateToComponent ==
    /\ component.settled = <<>>
    /\ LET cacheKey == CacheKey(DemoUser)
           updatedProfile == UpdatedProfile(CachedOrEmpty(cache, cacheKey),
                                            now)
       IN  IF HasCurrentProfile(cache, cacheKey)
           THEN /\ cache' = CacheSet(cache, cacheKey, updatedProfile)
                /\ component' = Deliver(component, subscribers,
                                        updatedProfile)
           ELSE UNCHANGED <<cache, component>>
    /\ last' = NoEvent
    /\ UNCHANGED <<subscribers, pending, disposers, now, sent, completed,
                   since, avatar, debounced>>

\* destroy(): the disposer of init(), container.innerHTML = ''
Destroy ==
    /\ component.constructed /\ ~component.destroyed
    /\ IF component.unsubscribe # 0
       THEN /\ subscribers' = DisposerEffect(subscribers,
                                   disposers[component.unsubscribe])
            /\ disposers' = [disposers EXCEPT
                               ![component.unsubscribe].called = TRUE]
       ELSE UNCHANGED <<subscribers, disposers>>
    /\ component' = [component EXCEPT
                       !.innerHTML = EmptyHTML, !.destroyed = TRUE]
    /\ last' = NoEvent
    /\ UNCHANGED <<cache, pending, now, sent, completed, since, avatar, debounced>>

\* a call of generateAvatarURL(name) returns
AvatarCall ==
    /\ avatar.url = NoURL
    /\ avatar' = [avatar EXCEPT !.url = GenerateAvatarURL(avatar.name)]
    /\ UNCHANGED <<cache, subscribers, pending, disposers, now, last,
                   sent, completed, since, component, debounced>>

\* a millisecond passes
AdvanceClock ==
    /\ now < MaxClock
    /\ now' = now + 1
    /\ last' = NoEvent
    /\ UNCHANGED <<cache, subscribers, pending, disposers, sent,
                   completed, since>>
    /\ UNCHANGED outsideVars

\* the whole store: every operation, on every input
Next ==
    \/ \E userId \in Users, forceRefresh \in BOOLEAN :
          FetchUserProfile(userId, forceRefresh)
    \/ \E userId \in Users, response \in GetResponses :
          FetchResponse(userId, response)
    \/ \E userId \in Users, profileData \in ProfileDatas :
          UpdateUserProfile(userId, profileData)
    \/ \E userId \in Users, response \in PutResponses,
          throwers \in SUBSET SeqRange(subscribers) :
          UpdateResponse(userId, response, throwers)
    \/ \E callback \in Callbacks : Subscribe(callback)
    \/ \E i \in 1..MaxDisposers : Unsubscribe(i)
    \/ \E userId \in Users \cup {NoUser} : ClearCache(userId)
    \/ \E throwers \in SUBSET SeqRange(subscribers) : SimulatedUpdate(throwers)
    \/ AdvanceClock

Spec == Init /\ [][Next]_vars

\* The cache, the subscriber registry and the clock meet only in a write or a
\* broadcast: a broadcast reads the cache and the registry and writes neither,
\* and the clock only stamps the records.  Each is explored in full with the
\* others held small.  A server that answers for the user it was asked about:
SameUser(userId, response) ==
    "id" \in DOMAIN response.body => response.body.id = userId

\* the cache side: every cache operation on every user, nobody subscribed,
\* all within one millisecond
StoreNext ==
    \/ \E userId \in Users : FetchUserProfile(userId, FALSE)
    \/ \E userId \in Users, response \in GetResponses :
          /\ SameUser(userId, response)
          /\ FetchResponse(userId, response)
    \/ \E userId \in Users : UpdateUserProfile(userId, EmptyObject)
    \/ \E userId \in Users, response \in PutResponses :
          /\ SameUser(userId, response)
          /\ UpdateResponse(userId, response, {})
    \/ \E userId \in Users \cup {NoUser} : ClearCache(userId)
    \/ SimulatedUpdate({})

SpecStore == Init /\ [][StoreNext]_vars

\* the clock side: the writes to the entry of the demo user as time passes,
\* fetchUserProfile called with and without a second argument
StampNext ==
    \/ \E forceRefresh \in BOOLEAN : FetchUserProfile(DemoUser, forceRefresh)
    \/ \E response \in GetResponses :
          /\ SameUser(DemoUser, response)
          /\ FetchResponse(DemoUser, response)
    \/ UpdateUserProfile(DemoUser, EmptyObject)
    \/ \E response \in PutResponses :
          /\ SameUser(DemoUser, response)
          /\ UpdateResponse(DemoUser, response, {})
    \/ ClearCache(DemoUser)
    \/ SimulatedUpdate({})
    \/ AdvanceClock

SpecStamp == Init /\ [][StampNext]_vars

\* the broadcast side: every registry operation, the cache of the demo user
BroadcastNext ==
    \/ FetchUserProfile(DemoUser, FALSE)
    \/ \E response \in GetResponses :
          /\ SameUser(DemoUser, response)
          /\ FetchResponse(DemoUser, response)
    \/ UpdateUserProfile(DemoUser, EmptyObject)
    \/ \E response \in PutResponses,
          throwers \in SUBSET SeqRange(subscribers) :
          /\ SameUser(DemoUser, response)
          /\ UpdateResponse(DemoUser, response, throwers)
    \/ \E callback \in Callbacks : Subscribe(callback)
    \/ \E i \in 1..MaxDisposers : Unsubscribe(i)
    \/ \E throwers \in SUBSET SeqRange(subscribers) : SimulatedUpdate(throwers)

SpecBroadcast == Init /\ [][BroadcastNext]_vars

\* the merge: updateUserProfile called with each profileData, one call at a
\* time, and a server free to answer any JSON, about any user
MergeNext ==
    \/ FetchUserProfile(DemoUser, FALSE)
    \/ \E response \in GetResponses : FetchResponse(DemoUser, response)
    \/ \E profileData \in ProfileDatas :
          /\ pending[<<"update", DemoUser>>] = 0
          /\ UpdateUserProfile(DemoUser, profileData)
    \/ \E response \in PutResponses : UpdateResponse(DemoUser, response, {})
    \/ ClearCache(DemoUser)
    \/ SimulatedUpdate({})
    \/ AdvanceClock

SpecMerge == Init /\ [][MergeNext]_vars

\* the frame of each operation: both users, subscribers and the clock, with
\* the entries written by fetchUserProfile and by the timer
FrameNext ==
    \/ \E userId \in Users : FetchUserProfile(userId, FALSE)
    \/ \E userId \in Users, response \in GetResponses :
          /\ SameUser(userId, response)
          /\ FetchResponse(userId, response)
    \/ \E callback \in Callbacks : Subscribe(callback)
    \/ \E userId \in Users \cup {NoUser} : ClearCache(userId)
    \/ \E throwers \in SUBSET SeqRange(subscribers) : SimulatedUpdate(throwers)
    \/ AdvanceClock

SpecFrame == Init /\ [][FrameNext]_vars

\* the broadcast with subscribers that call back into the store
ReentrantNext ==
    \/ FetchUserProfile(DemoUser, FALSE)
    \/ \E response \in GetResponses :
          /\ SameUser(DemoUser, response)
          /\ FetchResponse(DemoUser, response)
    \/ \E callback \in Callbacks : Subscribe(callback)
    \/ \E i \in 1..MaxDisposers : Unsubscribe(i)
    \/ \E acts \in [Callbacks -> CallbackActs] : SimulatedUpdateLive(acts)

SpecReentrant == Init /\ [][ReentrantNext]_vars

\* a server that answers with the whole resource: id and name
FullBody(response) ==
    response.outcome = "ok" => DOMAIN response.body = {"id", "name"}

\* the component on the store, for the demo user, with nobody else using
\* the store
ComponentNext ==
    \/ NewUserProfileComponent
    \/ LoadUserProfile(DemoUser)
    \/ Refresh
    \/ \E newData \in ProfileDatas : UpdateProfile(newData)
    \/ LoadResumes
    \/ \E response \in GetResponses :
          /\ SameUser(DemoUser, response)
          /\ LoadResponse(DemoUser, response)
    \/ \E response \in PutResponses :
          /\ SameUser(DemoUser, response) /\ FullBody(response)
          /\ UpdateProfileResponse(DemoUser, response)
    \/ SimulatedUpdateToComponent
    \/ Destroy

SpecComponent == Init /\ [][ComponentNext]_vars

(***************************************************************************)
(* DashboardUtils.debounce (dashboard.js)                                  *)
(*                                                                         *)
(* setTimeout(later, wait) enters a timer that the event loop runs once,   *)
(* when at least wait has passed and the loop is free: at its due time or  *)
(* later.  Until it runs, clearTimeout of its id removes it.               *)
(***************************************************************************)
\* what the callers pass to the debounced function
DebounceArgs == {"a", "b"}

\* clearTimeout(id): the timer of that id, if still in the table, is removed;
\* an id that is undefined or whose timer has run removes nothing
ClearTimeoutNothing(timers, id) == timers

ClearTimeout(timers, id) == {t \in timers : t.id # id}

\* setTimeout(later, wait), where later holds the args of this call
SetTimeout(timers, id, due, args) ==
    timers \cup {[id |-> id, due |-> due, args |-> args]}

\* executedFunction(...args): the debounced function is called
ExecutedFunction(args) ==
    /\ debounced.wait > 0
    /\ Len(debounced.calls) < MaxCalls
    /\ debounced.time + debounced.wait <= MaxTime
    /\ debounced' =
          [debounced EXCEPT
             !.timers = SetTimeout(ClearTimeout(debounced.timers,
                                                debounced.timeout),
                                   debounced.nextId,
                                   debounced.time + debounced.wait, args),
             !.timeout = debounced.nextId,
             !.nextId = debounced.nextId + 1,
             !.calls = Append(debounced.calls,
                              [time |-> debounced.time, args |-> args])]
    /\ UNCHANGED <<cache, subscribers, pending, disposers, now, last,
                   sent, completed, since, avatar, component>>

\* later(): the event loop runs a timer that is due; the timer leaves the
\* table, clearTimeout(timeout), func(...args)
Later ==
    /\ \E t \in debounced.timers :
          /\ debounced.time >= t.due
          /\ debounced' =
                [debounced EXCEPT
                   !.timers = ClearTimeout(debounced.timers \ {t},
                                           debounced.timeout),
                   !.invoked = Append(debounced.invoked,
                                      [time |-> debounced.time,
                                       args |-> t.args,
                                       after |-> Len(debounced.calls)])]
    /\ UNCHANGED <<cache, subscribers, pending, disposers, now, last,
                   sent, completed, since, avatar, component>>

\* a unit of time passes
AdvanceTime ==
    /\ debounced.wait > 0
    /\ debounced.time < MaxTime
    /\ debounced' = [debounced EXCEPT !.time = debounced.time + 1]
    /\ UNCHANGED <<cache, subscribers, pending, disposers, now, last,
                   sent, completed, since, avatar, component>>

\* a debounced function on its own, for each wait: the event loop runs a
\* due timer eventually, and time passes
InitDebounce ==
    /\ InitAPI
    /\ avatar = NoAvatarCall
    /\ component = NoComponent
    /\ debounced \in {Debounce(wait) : wait \in 1..MaxWait}

DebounceNext ==
    \/ \E args \in DebounceArgs : ExecutedFunction(args)
    \/ Later
    \/ AdvanceTime

SpecDebounce ==
    InitDebounce /\ [][DebounceNext]_vars /\ WF_vars(Later)
                 /\ WF_vars(AdvanceTime)

\* generateAvatarURL on its own, called with each name
InitAvatar ==
    /\ InitAPI
    /\ avatar \in [name : NameStrings, url : {NoURL}]
    /\ component = NoComponent
    /\ debounced = NoDebounce

AvatarNext == AvatarCall

SpecAvatar == InitAvatar /\ [][AvatarNext]_vars

(***************************************************************************)
(* Properties                                                              *)
(***************************************************************************)
\* the synchronous section just run was a call of fetchUserProfile
IsFetchCall ==
    \/ last.kind = "fetchSent"
    \/ last.kind = "fetchReturn" /\ last.outcome = "hit"

\* the section just run completed an updateUserProfile whose PUT succeeded
IsUpdateSuccess == last.kind = "updateReturn" /\ last.outcome = "ok"

\* the section just run broadcast a record
IsBroadcast ==
    \/ IsUpdateSuccess
    \/ last.kind = "tick" /\ last.outcome = "ok"

LastKey == CacheKey(last.userId)

\* C1: a fetchUserProfile call for a user for whom an earlier call has
\* returned a record, with no clearCache of that key since, sends no request:
\* it is a cache hit that returns the record the cache holds.
C1_SecondFetchIsCacheHit ==
    (IsFetchCall /\ last.since = "fetched") =>
        /\ last.kind = "fetchReturn"
        /\ ~last.networked
        /\ last.error = NoError
        /\ CacheHas(cache, LastKey)
        /\ last.result = cache[LastKey]

C1_Witness ==
    /\ last.kind = "fetchReturn" /\ last.outcome = "hit"
    /\ last.since = "fetched"
    /\ last.userId = 2

\* C2: a fetchUserProfile call for a key that was invalidated, with no other
\* fetchUserProfile call for it in between, sends a request, whatever was in
\* flight for that key when clearCache ran.
C2_FetchAfterInvalidateSendsRequest ==
    (IsFetchCall /\ last.since = "invalidated") => last.networked

\* C3: a successful updateUserProfile invokes the subscribers registered at
\* that moment, each exactly once, in registration order, with the merged
\* record, which is the record it stores and returns.
C3_UpdateBroadcastsInOrder ==
    IsUpdateSuccess =>
        /\ last.error = NoError
        /\ Len(last.delivered) = Len(subscribers)
        /\ \A i \in 1..Len(subscribers) :
              /\ last.delivered[i].cb = subscribers[i]
              /\ last.delivered[i].data = last.result
        /\ \A cb \in SeqRange(subscribers) :
              Cardinality({ i \in 1..Len(last.delivered) :
                              last.delivered[i].cb = cb }) = 1
        /\ CacheHas(cache, LastKey) /\ cache[LastKey] = last.result

C3_Witness ==
    /\ IsUpdateSuccess
    /\ Len(last.delivered) = 2
    /\ last.delivered[1].cb = "cbB"

\* C4: the section that completes a failed updateUserProfile (the PUT was
\* rejected, answered with a non-success status or with a body that is not
\* JSON) leaves the cache as it was and invokes no subscriber.
C4_FailedUpdateChangesNothing ==
    [][(last'.kind = "updateReturn" /\ last'.outcome # "ok") =>
          /\ cache' = cache
          /\ last'.delivered = <<>>
          /\ last'.error = UpdateErrorMessage
          /\ subscribers' = subscribers]_vars

C4_Witness ==
    /\ last.kind = "updateReturn" /\ last.outcome = "http_error"
    /\ Len(subscribers) = 2
    /\ CacheHas(cache, LastKey)

\* C5: the section that completes a fetchUserProfile whose GET failed fails
\* with the generic fetch error, writes nothing to the cache and sends no
\* request; the one that completes a GET that succeeded stores the record and
\* returns it, whatever failed before.
C5_FailedFetchIsGenericAndCachesNothing ==
    [][/\ (last'.kind = "fetchReturn" /\ last'.outcome \notin {"ok", "hit"}) =>
            /\ last'.error = FetchErrorMessage
            /\ last'.result = EmptyObject
            /\ cache' = cache
            /\ \A p \in PendingKeys : pending'[p] <= pending[p]
       /\ (last'.kind = "fetchReturn" /\ last'.outcome = "ok") =>
            /\ last'.error = NoError
            /\ CacheHas(cache', CacheKey(last'.userId))
            /\ cache'[CacheKey(last'.userId)] = last'.result]_vars

C5_Witness ==
    /\ last.kind = "fetchReturn" /\ last.outcome = "http_error"
    /\ last.error = FetchErrorMessage
    /\ ~CacheHas(cache, LastKey)
    /\ CacheHas(cache, CacheKey(2))

\* C6: when a callback throws during the broadcast of a successful
\* updateUserProfile, every subscriber registered after it is still invoked,
\* updateUserProfile does not fail, and the merged record stays in the cache
\* and is returned.
C6_ThrowingSubscriberIsContained ==
    (IsUpdateSuccess /\ last.threw # {}) =>
        /\ \A i \in 1..Len(subscribers) :
              subscribers[i] \in last.threw =>
                 \A j \in (i + 1)..Len(subscribers) :
                    /\ j <= Len(last.delivered)
                    /\ last.delivered[j].cb = subscribers[j]
        /\ last.error = NoError
        /\ last.result # EmptyObject
        /\ CacheHas(cache, LastKey) /\ cache[LastKey] = last.result

C6_Witness ==
    /\ IsUpdateSuccess
    /\ Len(subscribers) = 2
    /\ last.threw = {subscribers[1]}
    /\ Len(last.delivered) = 2

\* C7: a second call of a disposer removes no registration.
C7_SecondDisposeRemovesNothing ==
    (last.kind = "unsubscribe" /\ last.secondCall) => ~last.removed

\* the registrations of a callback that are still to be disposed of
LiveRegistrations(cb) ==
    { i \in 1..Len(disposers) : disposers[i].cb = cb /\ ~disposers[i].called }

\* C8: registration is by occurrence: a broadcast invokes each callback once
\* per registration of it that was not disposed of.
C8_OneDeliveryPerRegistration ==
    IsBroadcast =>
        \A cb \in Callbacks :
            Cardinality({ i \in 1..Len(last.delivered) :
                            last.delivered[i].cb = cb })
              = Cardinality(LiveRegistrations(cb))

\* C9: the cache holds an entry for a user exactly when a fetch or an update
\* for that user has completed successfully and the key was not invalidated
\* since; the cache holds no other key.
C9_EntryIffCompletedAndNotInvalidated ==
    /\ \A u \in Users : CacheHas(cache, CacheKey(u)) <=> completed[u]
    /\ DOMAIN cache \subseteq { CacheKey(u) : u \in Users }

C9_Witness ==
    /\ ~CacheHas(cache, CacheKey(1)) /\ since[1] = "invalidated"
    /\ CacheHas(cache, CacheKey(2)) /\ since[2] = "invalidated"
    /\ "id" \notin DOMAIN cache[CacheKey(2)]

\* the section just run (in the primed state) wrote the entry of last'.userId
IsWriteNext ==
    /\ last'.kind \in {"fetchReturn", "updateReturn", "tick"}
    /\ last'.outcome = "ok"

\* C10: every write to an entry that exists stores a lastUpdated strictly
\* greater than the one it replaces.
C10_LastUpdatedStrictlyIncreases ==
    [][(IsWriteNext /\ CacheHas(cache, CacheKey(last'.userId))) =>
          cache'[CacheKey(last'.userId)].lastUpdated
            > cache[CacheKey(last'.userId)].lastUpdated]_vars

\* C11: the broadcast of a successful updateUserProfile delivers the record
\* just merged: every callback is given the record that is in the cache
\* under that key while it runs, which is the record updateUserProfile
\* stores and returns.
C11_BroadcastDeliversStoredRecord ==
    IsUpdateSuccess =>
        /\ last.seen # EmptyObject
        /\ \A i \in 1..Len(last.delivered) :
              last.delivered[i].data = last.seen
        /\ last.seen = last.result
        /\ cache[LastKey] = last.seen

C11_Witness ==
    /\ IsUpdateSuccess
    /\ Len(last.delivered) = 2
    /\ pending[<<"update", DemoUser>>] = 1
    /\ "name" \in DOMAIN last.seen /\ last.seen.name = "Bob"

\* the fields a run of the timer callback stamps
TickFields == {"lastSeen", "lastUpdated"}

\* C12: a run of the timer callback that finds no entry for the demo user
\* invokes no subscriber and creates no entry: the cache and the subscribers
\* are as they were.
C12_TickWithoutEntryChangesNothing ==
    [][(last'.kind = "tick" /\ ~CacheHas(cache, CacheKey(DemoUser))) =>
          /\ cache' = cache
          /\ subscribers' = subscribers
          /\ last'.delivered = <<>>]_vars

C12_Witness ==
    /\ last.kind = "tick" /\ last.outcome # "ok"
    /\ Len(subscribers) = 2
    /\ CacheHas(cache, CacheKey(2))
    /\ ~CacheHas(cache, CacheKey(DemoUser))

\* C13: a run of the timer callback that finds an entry for the demo user
\* replaces it by a record equal to it except for lastSeen and lastUpdated,
\* both the current time, leaves the entry of every other key as it was and
\* invokes every subscriber once, in order, with the new record.
C13_TickStampsAndBroadcasts ==
    [][(last'.kind = "tick" /\ CacheHas(cache, CacheKey(DemoUser))) =>
          LET old == cache[CacheKey(DemoUser)]
              new == cache'[CacheKey(DemoUser)]
          IN  /\ DOMAIN cache' = DOMAIN cache
              /\ \A k \in DOMAIN cache \ {CacheKey(DemoUser)} :
                    cache'[k] = cache[k]
              /\ DOMAIN new = DOMAIN old \cup TickFields
              /\ \A f \in DOMAIN old \ TickFields : new[f] = old[f]
              /\ new.lastSeen = now /\ new.lastUpdated = now
              /\ subscribers' = subscribers
              /\ Len(last'.delivered) = Len(subscribers)
              /\ \A i \in 1..Len(subscribers) :
                    /\ last'.delivered[i].cb = subscribers[i]
                    /\ last'.delivered[i].data = new]_vars

C13_Witness ==
    /\ last.kind = "tick" /\ last.outcome = "ok"
    /\ Len(last.delivered) = 2
    /\ CacheHas(cache, CacheKey(2))
    /\ now = 2
    /\ cache[CacheKey(DemoUser)].lastSeen = 2
    /\ cache[CacheKey(DemoUser)].name = "Bob"

\* C14: no section of fetchUserProfile invokes a subscriber, whether it is a
\* cache hit, a miss that succeeds or a failure; a section that invokes one
\* completes a successful updateUserProfile or is a run of the timer callback
\* that found the entry of the demo user.
C14_OnlyUpdateAndTickBroadcast ==
    [][/\ last'.kind \in {"fetchSent", "fetchReturn"} =>
             last'.delivered = <<>>
       /\ last'.delivered # <<>> =>
             \/ last'.kind = "updateReturn" /\ last'.outcome = "ok"
             \/ /\ last'.kind = "tick"
                /\ CacheHas(cache, CacheKey(DemoUser))]_vars

C14_Witness ==
    /\ last.kind = "fetchReturn" /\ last.outcome = "ok" /\ last.networked
    /\ Len(subscribers) = 2
    /\ last.delivered = <<>>
    /\ cache[LastKey] = last.result

\* C15: clearCache(userId) removes the entry of that key and no other,
\* clearCache() removes every entry; neither touches the subscribers nor
\* invokes one, and clearing a key that has no entry changes nothing and
\* raises nothing.
C15_ClearCacheRemovesOnlyItsKey ==
    [][(last'.kind = "clearCache") =>
          /\ subscribers' = subscribers
          /\ last'.delivered = <<>>
          /\ last'.error = NoError
          /\ IF last'.userId \in Users
             THEN /\ DOMAIN cache' = DOMAIN cache \ {CacheKey(last'.userId)}
                  /\ \A k \in DOMAIN cache' : cache'[k] = cache[k]
                  /\ ~CacheHas(cache, CacheKey(last'.userId)) =>
                        cache' = cache
             ELSE DOMAIN cache' = {}]_vars

C15_Witness ==
    /\ last.kind = "clearCache" /\ last.userId = DemoUser /\ last.removed
    /\ CacheHas(cache, CacheKey(2))
    /\ Len(subscribers) = 2

\* the section run in the step completed an updateUserProfile whose PUT
\* succeeded
IsUpdateSuccessNext == last'.kind = "updateReturn" /\ last'.outcome = "ok"

\* C16 as written: a successful updateUserProfile stores the response merged
\* over the cached record, stamped with the time of the merge, and a call
\* with { name: X } therefore yields a record whose name is X.
C16_UpdateWithNameYieldsThatName ==
    [][IsUpdateSuccessNext =>
          LET cacheKey == CacheKey(last'.userId)
              old == IF CacheHas(cache, cacheKey)
                     THEN cache[cacheKey] ELSE EmptyObject
              new == cache'[cacheKey]
          IN  /\ new = last'.result
              /\ DOMAIN new
                   = DOMAIN old \cup DOMAIN last'.body \cup {"lastUpdated"}
              /\ \A f \in DOMAIN last'.body : new[f] = last'.body[f]
              /\ \A f \in DOMAIN old \ (DOMAIN last'.body \cup {"lastUpdated"}) :
                    new[f] = old[f]
              /\ new.lastUpdated = now
              /\ "name" \in DOMAIN sent =>
                    "name" \in DOMAIN new /\ new.name = sent.name]_vars

\* C16: a successful updateUserProfile stores the response merged over the
\* cached record: a field of the response has the value of the response, a
\* field only the cached record has keeps its value, a field neither has is
\* absent, and lastUpdated is the time of the merge; the record has the
\* name X of a call with { name: X } when the response carries that name.
C16_UpdateStoresResponseOverCached ==
    [][IsUpdateSuccessNext =>
          LET cacheKey == CacheKey(last'.userId)
              old == IF CacheHas(cache, cacheKey)
                     THEN cache[cacheKey] ELSE EmptyObject
              new == cache'[cacheKey]
          IN  /\ new = last'.result
              /\ DOMAIN new
                   = DOMAIN old \cup DOMAIN last'.body \cup {"lastUpdated"}
              /\ \A f \in DOMAIN last'.body : new[f] = last'.body[f]
              /\ \A f \in DOMAIN old \ (DOMAIN last'.body \cup {"lastUpdated"}) :
                    new[f] = old[f]
              /\ new.lastUpdated = now
              /\ ("name" \in DOMAIN sent /\ "name" \in DOMAIN last'.body
                    /\ last'.body.name = sent.name) =>
                    new.name = sent.name]_vars

C16_Witness ==
    /\ IsUpdateSuccess
    /\ DOMAIN sent = {"name"} /\ sent.name = "Bob"
    /\ DOMAIN last.body = {"name"} /\ last.body.name = "Bob"
    /\ DOMAIN last.result = {"id", "name", "lastSeen", "lastUpdated"}
    /\ last.result.name = "Bob"
    /\ last.result.lastSeen = 1
    /\ last.result.id = DemoUser
    /\ last.result.lastUpdated = 2 /\ now = 2

\* C17: the record stored under the key of a user has the id of that user,
\* in every state, and no merge (a successful update, a run of the timer
\* callback) changes the id of an entry that exists.
C17_StoredIdIsTheKeysId ==
    [][/\ \A u \in Users :
             CacheHas(cache', CacheKey(u)) =>
                /\ "id" \in DOMAIN cache'[CacheKey(u)]
                /\ cache'[CacheKey(u)].id = u
       /\ \A u \in Users :
             (/\ last'.kind \in {"updateReturn", "tick"}
              /\ CacheHas(cache, CacheKey(u))
              /\ "id" \in DOMAIN cache[CacheKey(u)]) =>
                /\ CacheHas(cache', CacheKey(u))
                /\ "id" \in DOMAIN cache'[CacheKey(u)]
                /\ cache'[CacheKey(u)].id = cache[CacheKey(u)].id]_vars

\* the section run in the step completed a request for user u with the
\* given outcome
CompletedNext(kinds, u, outcomes) ==
    /\ last'.kind \in kinds
    /\ last'.userId = u
    /\ last'.outcome \in outcomes

\* the moves of the key of each user between absent and present in a step,
\* with `creators` the kinds of request whose success may create the entry
KeyMoves(creators) ==
    \A u \in Users :
        LET present == CacheHas(cache, CacheKey(u))
            presentNext == CacheHas(cache', CacheKey(u))
        IN  /\ (~present /\ presentNext) => CompletedNext(creators, u, {"ok"})
            /\ (present /\ ~presentNext) =>
                  /\ last'.kind = "clearCache"
                  /\ last'.userId \in {u, NoUser}
            /\ (present /\ CompletedNext({"updateReturn", "tick"}, u, {"ok"}))
                  => presentNext
            /\ CompletedNext({"fetchReturn", "updateReturn"}, u,
                             Outcomes \ {"ok"})
                  => (presentNext <=> present)

\* C18 as written: a key goes from absent to present only by a successful
\* fetch and from present to absent only by clearCache; a successful update
\* and the timer keep a present key present; a failed operation does not
\* move it.
C18_OnlyFetchCreatesAnEntry == [][KeyMoves({"fetchReturn"})]_vars

\* C18: a key goes from absent to present only by a successful fetch or a
\* successful update, and from present to absent only by clearCache; a
\* successful update and the timer keep a present key present; a failed
\* operation does not move it.
C18_OnlyFetchOrUpdateCreatesAnEntry ==
    [][KeyMoves({"fetchReturn", "updateReturn"})]_vars

C18_Witness ==
    /\ IsUpdateSuccess /\ last.userId = 2
    /\ DOMAIN cache[CacheKey(2)] = {"name", "lastUpdated"}
    /\ ~CacheHas(cache, CacheKey(DemoUser))
    /\ since[DemoUser] = "invalidated"

\* C19: fetchUserProfile calls for one uncached key that overlap are not
\* merged: each call that finds no entry sends its own request, also while
\* another is in flight for the key, and each answer that succeeds stores
\* its own record and returns it to its caller.
C19_OverlappingFetchesEachSendAndStore ==
    [][\A u \in Users :
          /\ (last'.kind \in {"fetchSent", "fetchReturn"}
                /\ last'.userId = u /\ last'.outcome \in {"", "hit"}
                /\ ~CacheHas(cache, CacheKey(u))) =>
                /\ last'.kind = "fetchSent" /\ last'.networked
                /\ pending'[<<"fetch", u>>] = pending[<<"fetch", u>>] + 1
          /\ CompletedNext({"fetchReturn"}, u, {"ok"}) =>
                /\ pending'[<<"fetch", u>>] = pending[<<"fetch", u>>] - 1
                /\ last'.error = NoError
                /\ last'.result.lastUpdated = now
                /\ cache'[CacheKey(u)] = last'.result]_vars

C19_Witness ==
    /\ last.kind = "fetchReturn" /\ last.outcome = "ok" /\ last.userId = 2
    /\ pending[<<"fetch", 2>>] = 1
    /\ cache[CacheKey(2)] = last.result

\* C20: a fetchUserProfile call returns the cached record without a request
\* exactly when an entry exists and forceRefresh is false; with forceRefresh
\* true it sends a request even though an entry exists.
C20_ForceRefreshBypassesTheCache ==
    IsFetchCall =>
        (~last.networked <=>
            (CacheHas(cache, LastKey) /\ ~last.forceRefresh))

\* C21: the avatar URL is the fixed template around the initials of the
\* name: the upper-cased first character of each token of the name, cut to
\* two characters.
C21_AvatarURLEncodesInitials ==
    avatar.url # NoURL =>
        avatar.url = AvatarURLHead \o EncodeURIComponent(Initials(avatar.name))
                       \o AvatarURLTail

\* C22: when a successful updateUserProfile has stored the merged record of
\* a key, the answer of a fetchUserProfile that was in flight for that key
\* does not overwrite it: after the section that completes the fetch right
\* after the update, the entry still has the fields the update gave it.
C22_InFlightFetchKeepsUpdatedRecord ==
    [][\A u \in Users :
          (/\ IsUpdateSuccess /\ last.userId = u
           /\ CompletedNext({"fetchReturn"}, u, {"ok"})) =>
              \A f \in DOMAIN last.body :
                  cache'[CacheKey(u)][f] = last.body[f]]_vars

C24_BroadcastInvokesThoseRegisteredAtStart ==
    [][(last'.kind = "tick" /\ last'.outcome = "ok") =>
          /\ Len(last'.delivered) = Len(subscribers)
          /\ \A i \in 1..Len(subscribers) :
                last'.delivered[i].cb = subscribers[i]]_vars

\* C25: isLoading is true in every state in which a loadUserProfile or an
\* updateProfile call of the component is still awaiting the store, also
\* when several overlap, and false when none is.
C25_IsLoadingWhileAwaiting ==
    component.isLoading <=> component.awaiting > 0

\* C26: after destroy() the currentUser of the component and what its
\* container shows never change: no broadcast reaches it, and a load or an
\* update in flight at that time does not render when it completes.
C26_NothingChangesAfterDestroy ==
    [][component.destroyed =>
          /\ component'.currentUser = component.currentUser
          /\ component'.innerHTML = component.innerHTML]_vars

(***************************************************************************)
(* debounce                                                                *)
(***************************************************************************)
\* the calls of executedFunction that a call of func has answered so far
Served ==
    IF debounced.invoked = <<>> THEN 0
    ELSE debounced.invoked[Len(debounced.invoked)].after

\* func is called only when wait has passed since the latest call of the
\* debounced function, and with the arguments of that call
InvokedAfterWait ==
    \A j \in 1..Len(debounced.invoked) :
       LET k == debounced.invoked[j].after
       IN  /\ k >= 1
           /\ debounced.invoked[j].time >=
                 debounced.calls[k].time + debounced.wait
           /\ debounced.invoked[j].args = debounced.calls[k].args

\* call k of the debounced function is the last of a burst that is over:
\* the next call came wait or more after it
EndsBurst(k) ==
    /\ k < Len(debounced.calls)
    /\ debounced.calls[k + 1].time >=
          debounced.calls[k].time + debounced.wait

\* C27 as stated: func is called only after wait has passed with no further
\* call, and every burst of calls less than wait apart produces exactly one
\* call of func, with the arguments of the last call of the burst: once the
\* next burst has begun, func has been called exactly once for the burst
\* before it.
C27_EveryBurstProducesOneCall ==
    /\ InvokedAfterWait
    /\ \A k \in 1..Len(debounced.calls) :
          EndsBurst(k) =>
             Cardinality({j \in 1..Len(debounced.invoked) :
                             debounced.invoked[j].after = k}) = 1

\* what holds at every moment: the calls of func answer disjoint, non-empty
\* runs of calls; calls not yet answered have exactly one timer in the
\* table, that of the latest call; with every call answered no timer is left
OneTimerPerRun ==
    /\ InvokedAfterWait
    /\ \A j \in 2..Len(debounced.invoked) :
          debounced.invoked[j].after > debounced.invoked[j - 1].after
    /\ Served <= Len(debounced.calls)
    /\ IF Served < Len(debounced.calls)
       THEN LET c == debounced.calls[Len(debounced.calls)]
            IN  debounced.timers =
                   {[id |-> debounced.timeout,
                     due |-> c.time + debounced.wait, args |-> c.args]}
       ELSE debounced.timers = {}

\* C27, amended: func is called only when at least wait has passed since
\* the latest call of the debounced function, with the arguments of that
\* call.  A call made while the timer of the call before it has not run yet,
\* due or not, takes its place: a run of calls each made before the pending
\* timer has run produces exactly one call of func, with the arguments of
\* the last call of the run, and that call of func does come.
C27_EveryRunProducesOneCall ==
    /\ []OneTimerPerRun
    /\ (Served < Len(debounced.calls)) ~> (Served = Len(debounced.calls))

\* two calls wait or more apart, the second made before the timer of the
\* first had run, and func called once, with the arguments of the second
C27_Witness ==
    /\ Len(debounced.calls) = 2
    /\ EndsBurst(1)
    /\ debounced.calls[1].args # debounced.calls[2].args
    /\ Len(debounced.invoked) = 1
    /\ debounced.invoked[1].after = 2
    /\ debounced.invoked[1].args = debounced.calls[2].args

====
